---- MODULE Spec2Model ----
(***************************************************************************)
(* Model of social/backends/base.py: BaseAuth.authenticate, pipeline,      *)
(* disconnect and run_pipeline, the pipeline executor of the backend       *)
(* (specification Spec), and BaseAuth.setting, auth_allowed,               *)
(* auth_extra_arguments and request_token_extra_arguments over one shared  *)
(* configuration (specification SpecHelpers).                              *)
(*                                                                         *)
(* Python values are modelled by tokens (strings); pipeline_index and the  *)
(* positional arguments are integers.  A keyword map / context is a        *)
(* function from a finite set of keys to values.  The value a call or a    *)
(* step produces is a record [kind, d, v]: a mapping (kind "dict", in d),  *)
(* any other value (kind "value", in v), or a raised exception (kind       *)
(* "raise", its type in v).                                                *)
(***************************************************************************)
EXTENDS Integers, Sequences, FiniteSets, TLC

\* ------------------------------------------------------------- bounds
\* longest configured pipeline
MaxLen == 2

\* ------------------------------------------------------------- values
EmptyMap == [k \in {} |-> "None"]

Get(m, k) == IF k \in DOMAIN m THEN m[k] ELSE "None"

Without(m, k) == [x \in DOMAIN m \ {k} |-> m[x]]

SetDefault(m, k, v) == IF k \in DOMAIN m THEN m ELSE (k :> v) @@ m

SetItem(m, k, v) == (k :> v) @@ m

Opt(present, k, v) == IF present THEN k :> v ELSE EmptyMap

\* Python truth value of a (non-mapping) token
Truthy(v) == v \notin {"None", "False", "0", ""}

Dict(m) == [kind |-> "dict", d |-> m, v |-> "None"]

Val(x) == [kind |-> "value", d |-> EmptyMap, v |-> x]

Raise(e) == [kind |-> "raise", d |-> EmptyMap, v |-> e]

NoResult == [kind |-> "none", d |-> EmptyMap, v |-> "None"]

\* Python truth value of a returned value: an empty mapping is false
ResultTruthy(r) == IF r.kind = "dict" THEN DOMAIN r.d # {} ELSE Truthy(r.v)

\* the user objects steps and callers hand around
Users == {"U1", "U2"}

\* ------------------------------------------------- backend and strategy
\* BaseAuth.name of the backend under study
SelfName == "foo"

\* backend objects a caller may pass: this backend, another instance of the
\* same provider, a backend of another provider
BackendName(b) == IF b \in {"this", "twin"} THEN "foo" ELSE "bar"

Strategies == {"S1", "S2"}

\* strategy.request_data()
RequestData(s) ==
  IF s = "S1" THEN ("scope" :> "r1")
  ELSE ("display" :> "r2") @@ ("state" :> "st")

\* strategy.request
RequestOf(s) == IF s = "S1" THEN "req_S1" ELSE "req_S2"

\* strategy.storage.user
StorageUser(s) == IF s = "S1" THEN "users_S1" ELSE "users_S2"

\* strategy.backend: the backend instance the strategy was built around
StrategyBackend(s) == IF s = "S1" THEN "this" ELSE "twin"

\* ------------------------------------------------------------- steps
StepNames ==
  {"noop", "set_a", "set_b", "load_user", "redirect", "zero", "fail",
   "set_index", "set_name"}

\* what strategy.get_pipeline() / get_disconnect_pipeline() may return
Pipelines == UNION {[1..n -> StepNames] : n \in 0..MaxLen}

\* module_member(name)(*args, **ctx): the step functions, each a
\* deterministic function of its inputs
StepFunc(name, args, ctx) ==
  CASE name = "noop" -> Val("None")
    [] name = "set_a" -> Dict("k" :> "A")
    [] name = "set_b" -> Dict("k" :> "B")
    [] name = "load_user" ->
         Dict(("user" :> "U1") @@ ("social" :> "soc1") @@ ("is_new" :> "True"))
    [] name = "redirect" -> Val("redirect")
    [] name = "zero" -> Val("0")
    [] name = "fail" -> Raise("StepError")
    [] name = "set_index" -> Dict("pipeline_index" :> 7)
    [] name = "set_name" -> Dict(SelfName :> "X")

\* pipeline[k:]
Slice(p, k) == IF k >= Len(p) THEN << >> ELSE SubSeq(p, k + 1, Len(p))


\* ------------------------------------------------------------- state
VARIABLES
  selfStrategy,  \* self.strategy ("None" when constructed without one)
  selfRedirect,  \* self.redirect_uri
  selfData,      \* self.data
  pc,            \* "idle", "running" (inside run_pipeline's loop), "returned"
  op,            \* the entry point of the current call
  callArgs,      \* its positional arguments
  callKwargs,    \* its keyword arguments
  configured,    \* the sequence get_pipeline()/get_disconnect_pipeline() gave
  readFrom,      \* the strategy that sequence was read from
  getter,        \* the strategy method that gave it
  pipeline,      \* run_pipeline's pipeline parameter
  startIndex,    \* run_pipeline's pipeline_index parameter
  runArgs,       \* run_pipeline's *args
  runKwargs,     \* run_pipeline's **kwargs
  idx,           \* the loop's idx
  out,           \* the loop's out
  log,           \* history: the step invocations of this run, in order
  cleanLog,      \* history: the clean_partial_pipeline() calls of this run
  execResult,    \* what run_pipeline returned or raised
  result,        \* what the entry point returned or raised
  userAttrs,     \* attributes set on the user objects
  scen,          \* the resumption scenario in progress, if any
  settings,      \* the configuration behind strategy.setting()
  settings0      \* history: that configuration as it was deployed

selfVars == <<selfStrategy, selfRedirect, selfData>>

callVars == <<op, callArgs, callKwargs, configured, readFrom, getter>>

runVars == <<pipeline, startIndex, runArgs, runKwargs, idx, out, log, cleanLog>>

confVars == <<settings, settings0>>

vars ==
  <<selfVars, callVars, runVars, pc, execResult, result, userAttrs, scen,
    confVars>>

Unset == [set |-> FALSE, social_user |-> "None", is_new |-> "None"]

NoScen == [phase |-> "none", p |-> << >>, k |-> 0, kw |-> EmptyMap, full |-> NoResult]

\* no call is in progress
InitCall ==
  /\ pc = "idle"
  /\ op = "none"
  /\ callArgs = << >>
  /\ callKwargs = EmptyMap
  /\ configured = << >>
  /\ readFrom = "none"
  /\ getter = "none"
  /\ pipeline = << >>
  /\ startIndex = 0
  /\ runArgs = << >>
  /\ runKwargs = EmptyMap
  /\ idx = 0
  /\ out = EmptyMap
  /\ log = << >>
  /\ cleanLog = << >>
  /\ execResult = NoResult
  /\ result = NoResult
  /\ userAttrs = [u \in Users |-> Unset]
  /\ scen = NoScen

\* BaseAuth(strategy=None) or BaseAuth(strategy=S1)
Init ==
  /\ selfStrategy \in {"None", "S1"}
  /\ selfRedirect = (IF selfStrategy = "None" THEN "None" ELSE "abs_uri")
  /\ selfData = (IF selfStrategy = "None" THEN EmptyMap ELSE RequestData(selfStrategy))
  /\ settings = EmptyMap
  /\ settings0 = EmptyMap
  /\ InitCall


\* ------------------------------------------------- call binding
\* Binding of f(pipeline, *args, **kwargs) to the signature
\* (self, pipeline, pipeline_index=0, *args, **kwargs) of pipeline() and
\* run_pipeline(): the first positional argument lands in pipeline_index.
BindError(args, kw) == args # << >> /\ "pipeline_index" \in DOMAIN kw

BoundIndex(args, kw) ==
  IF args # << >> THEN args[1]
  ELSE IF "pipeline_index" \in DOMAIN kw THEN kw["pipeline_index"] ELSE 0

BoundArgs(args) == IF args # << >> THEN Tail(args) ELSE << >>

BoundKwargs(kw) == Without(kw, "pipeline_index")

\* ------------------------------------------------- run_pipeline
\* InitialContext with out['backend'] = self in place of the setdefault
InitialContextForced(kw, strat) ==
  LET o1 == SetDefault(kw, "strategy", strat)
      o2 == Without(o1, SelfName)
      o3 == SetItem(o2, "backend", "this")
  IN SetDefault(o3, "request", RequestOf(strat))

\* out after lines 104-107; out.pop(self.name, None) is evaluated whether or
\* not 'backend' is already present
InitialContext(kw, strat) ==
  LET o1 == SetDefault(kw, "strategy", strat)
      popped == Get(o1, SelfName)
      o2 == Without(o1, SelfName)
      o3 == SetDefault(o2, "backend", IF Truthy(popped) THEN popped ELSE "this")
  IN SetDefault(o3, "request", RequestOf(strat))

\* WithIndex that keeps a pipeline_index an earlier step put in the context
WithIndexKept(o, start, i) == SetDefault(o, "pipeline_index", start + i)

\* line 110
WithIndex(o, start, i) == SetItem(o, "pipeline_index", start + i)

\* line 112: func(*args, **out) or {}
OrEmpty(raw) == IF ResultTruthy(raw) THEN raw ELSE Dict(EmptyMap)

\* CallStep with every non-mapping result taken for an empty one
CallStepAlwaysEmpty(name, args, ctx) ==
  LET raw == StepFunc(name, args, ctx)
  IN IF raw.kind = "dict" \/ raw.kind = "raise" THEN raw ELSE Dict(EmptyMap)

\* CallStep inside a try/except that swallows the step's exception
CallStepCaught(name, args, ctx) ==
  LET raw == StepFunc(name, args, ctx)
  IN IF raw.kind = "raise" THEN Dict(EmptyMap) ELSE OrEmpty(raw)

\* lines 111-112: the step is resolved and called; what it raises is not caught
CallStep(name, args, ctx) ==
  LET raw == StepFunc(name, args, ctx)
  IN IF raw.kind = "raise" THEN raw ELSE OrEmpty(raw)

\* line 113: not isinstance(result, dict); an exception leaves the loop too
ShortCircuits(res) == res.kind # "dict"

\* Cleaned with the call to clean_partial_pipeline() left out
CleanedNever(cl, strat, n) == cl

\* line 116: self.strategy.clean_partial_pipeline()
Cleaned(cl, strat, n) == Append(cl, [strategy |-> strat, after |-> n])

\* Update that replaces the context by the step's mapping
UpdateReplaced(o, d) == d

\* Update that keeps the older value on a key collision
UpdateKeptOld(o, d) == o @@ d

\* line 115: out.update(result)
Update(o, d) == d @@ o

\* Unwrap that hands back the context itself when it holds no user
UnwrapOrRaw(r) ==
  IF r.kind = "dict" /\ "user" \in DOMAIN r.d THEN Val(r.d["user"]) ELSE r

\* pipeline(), lines 87-93: what authenticate hands back for run_pipeline's out
Unwrap(r) == IF r.kind # "dict" THEN r ELSE Val(Get(r.d, "user"))

\* Annotate that sets is_new and forgets social_user
AnnotateNoSocial(r, attrs) ==
  IF r.kind = "dict" /\ Truthy(Get(r.d, "user")) /\ Get(r.d, "user") \in Users
  THEN [attrs EXCEPT ![r.d["user"]] =
          [set |-> TRUE, social_user |-> "None", is_new |-> Get(r.d, "is_new")]]
  ELSE attrs

\* pipeline(), lines 90-92: the attributes set on the user object
Annotate(r, attrs) ==
  IF r.kind = "dict" /\ Truthy(Get(r.d, "user")) /\ Get(r.d, "user") \in Users
  THEN [attrs EXCEPT ![r.d["user"]] =
          [set |-> TRUE, social_user |-> Get(r.d, "social"),
           is_new |-> Get(r.d, "is_new")]]
  ELSE attrs

\* Return with disconnect passing through pipeline() as authenticate does
ReturnUnwrapped(o, r) == IF r.kind # "raise" THEN Unwrap(r) ELSE r

\* what the entry point does with run_pipeline's outcome
Return(o, r) == IF o = "authenticate" /\ r.kind # "raise" THEN Unwrap(r) ELSE r

\* the call ends before run_pipeline is entered
Abort(r) ==
  /\ pc' = "returned"
  /\ result' = r
  /\ execResult' = NoResult
  /\ UNCHANGED <<runVars, userAttrs>>

\* run_pipeline(p, start, *args, **kw) is entered: lines 104-107
Enter(strat, p, start, args, kw) ==
  /\ pipeline' = p
  /\ startIndex' = start
  /\ runArgs' = args
  /\ runKwargs' = kw
  /\ idx' = 0
  /\ log' = << >>
  /\ cleanLog' = << >>
  /\ UNCHANGED userAttrs
  /\ pc' = "running"
  /\ out' = InitialContext(kw, strat)
  /\ execResult' = NoResult
  /\ result' = NoResult

\* StepAt that walks the sequence from its end
StepAtReversed(p, i) == p[Len(p) - i]

\* line 109: the name enumerate(pipeline) yields at offset i
StepAt(p, i) == p[i + 1]

\* one iteration of the loop, lines 109-115
RunStep ==
  /\ pc = "running"
  /\ idx < Len(pipeline)
  /\ LET ctx == WithIndex(out, startIndex, idx)
         raw == StepFunc(StepAt(pipeline, idx), runArgs, ctx)
         res == CallStep(StepAt(pipeline, idx), runArgs, ctx)
     IN /\ log' = Append(log, [name |-> StepAt(pipeline, idx), offset |-> idx,
                               args |-> runArgs, ctx |-> ctx, ret |-> raw])
        /\ IF ShortCircuits(res)
           THEN /\ pc' = "returned"
                /\ execResult' = res
                /\ result' = Return(op, res)
                /\ userAttrs' = (IF op = "authenticate" THEN Annotate(res, userAttrs)
                                 ELSE userAttrs)
                /\ out' = ctx
                /\ UNCHANGED idx
           ELSE /\ out' = Update(ctx, res.d)
                /\ idx' = idx + 1
                /\ UNCHANGED <<pc, execResult, result, userAttrs>>
  /\ UNCHANGED <<selfVars, callVars, pipeline, startIndex, runArgs, runKwargs,
                 cleanLog, scen, confVars>>

\* the loop is over, lines 116-117, and the entry point returns
Complete ==
  /\ pc = "running"
  /\ idx = Len(pipeline)
  /\ cleanLog' = Cleaned(cleanLog, selfStrategy, Len(log))
  /\ execResult' = Dict(out)
  /\ result' = Return(op, Dict(out))
  /\ userAttrs' = (IF op = "authenticate" THEN Annotate(Dict(out), userAttrs)
                   ELSE userAttrs)
  /\ pc' = "returned"
  /\ UNCHANGED <<selfVars, callVars, pipeline, startIndex, runArgs, runKwargs,
                 idx, out, log, scen, confVars>>

\* ------------------------------------------------- authenticate
\* lines 72-73
ChecksPass(kw) ==
  /\ "backend" \in DOMAIN kw
  /\ BackendName(kw["backend"]) = SelfName
  /\ "strategy" \in DOMAIN kw
  /\ "response" \in DOMAIN kw

Authenticate(args, kw) ==
  /\ pc = "idle"
  /\ scen.phase = "none"
  /\ op' = "authenticate"
  /\ callArgs' = args
  /\ callKwargs' = kw
  /\ UNCHANGED <<scen, confVars>>
  /\ IF ~ChecksPass(kw)
     THEN /\ Abort(Val("None"))
          /\ configured' = << >>
          /\ readFrom' = "none"
          /\ getter' = "none"
          /\ UNCHANGED selfVars
     ELSE LET strat == IF selfStrategy # "None" THEN selfStrategy ELSE kw["strategy"]
              kw2 == SetDefault(kw, "is_new", "False")
          IN /\ selfStrategy' = strat
             /\ selfRedirect' = (IF Truthy(selfRedirect) THEN selfRedirect
                                 ELSE Get(kw, "redirect_uri"))
             /\ selfData' = RequestData(strat)
             /\ \E p \in Pipelines :
                  /\ configured' = p
                  /\ readFrom' = strat
                  /\ getter' = "get_pipeline"
                  /\ IF BindError(args, kw2)
                     THEN Abort(Raise("TypeError"))
                     ELSE Enter(strat,
                                IF "pipeline_index" \in DOMAIN kw2
                                THEN Slice(p, kw2["pipeline_index"]) ELSE p,
                                BoundIndex(args, kw2), BoundArgs(args),
                                BoundKwargs(kw2))

\* ------------------------------------------------- disconnect
Disconnect(args, kw) ==
  /\ pc = "idle"
  /\ scen.phase = "none"
  /\ op' = "disconnect"
  /\ callArgs' = args
  /\ callKwargs' = kw
  /\ UNCHANGED <<selfVars, scen, confVars>>
  /\ IF selfStrategy = "None"
     THEN /\ Abort(Raise("AttributeError"))
          /\ configured' = << >>
          /\ readFrom' = "none"
          /\ getter' = "none"
     ELSE \E p \in Pipelines :
            LET kw2 == SetItem(SetItem(kw, "name",
                                       BackendName(StrategyBackend(selfStrategy))),
                               "user_storage", StorageUser(selfStrategy))
            IN /\ configured' = p
               /\ readFrom' = selfStrategy
               /\ getter' = "get_disconnect_pipeline"
               /\ IF BindError(args, kw2)
                  THEN Abort(Raise("TypeError"))
                  ELSE Enter(selfStrategy,
                             IF "pipeline_index" \in DOMAIN kw
                             THEN Slice(p, kw["pipeline_index"]) ELSE p,
                             BoundIndex(args, kw2), BoundArgs(args),
                             BoundKwargs(kw2))

\* ------------------------------------------------- resumption scenario
\* An external layer runs run_pipeline on a whole sequence, then on its
\* prefix [s0..sk], then on the suffix from k+1 seeded with the context the
\* prefix run returned (pipeline_index is a parameter of run_pipeline, so
\* it is passed as the start index and not as a keyword).
ResumeFull(p, k, kw) ==
  /\ pc = "idle"
  /\ scen.phase = "none"
  /\ op' = "run_pipeline"
  /\ callArgs' = << >>
  /\ callKwargs' = kw
  /\ configured' = p
  /\ readFrom' = "none"
  /\ getter' = "none"
  /\ scen' = [phase |-> "full", p |-> p, k |-> k, kw |-> kw, full |-> NoResult]
  /\ Enter(selfStrategy, p, 0, << >>, kw)
  /\ UNCHANGED <<selfVars, confVars>>

ResumePrefix ==
  /\ pc = "returned"
  /\ scen.phase = "full"
  /\ scen' = [scen EXCEPT !.phase = "prefix", !.full = execResult]
  /\ Enter(selfStrategy, SubSeq(scen.p, 1, scen.k + 1), 0, << >>, scen.kw)
  /\ UNCHANGED <<selfVars, callVars, confVars>>

ResumeSuffix ==
  /\ pc = "returned"
  /\ scen.phase = "prefix"
  /\ execResult.kind = "dict"
  /\ scen' = [scen EXCEPT !.phase = "suffix"]
  /\ Enter(selfStrategy, Slice(scen.p, scen.k + 1), scen.k + 1, << >>,
           Without(execResult.d, "pipeline_index"))
  /\ UNCHANGED <<selfVars, callVars, confVars>>

\* the caller has its answer; the next call starts afresh
Reset ==
  /\ pc = "returned"
  /\ \/ scen.phase \in {"none", "suffix"}
     \/ scen.phase = "prefix" /\ execResult.kind # "dict"
  /\ pc' = "idle"
  /\ op' = "none"
  /\ callArgs' = << >>
  /\ callKwargs' = EmptyMap
  /\ configured' = << >>
  /\ readFrom' = "none"
  /\ getter' = "none"
  /\ pipeline' = << >>
  /\ startIndex' = 0
  /\ runArgs' = << >>
  /\ runKwargs' = EmptyMap
  /\ idx' = 0
  /\ out' = EmptyMap
  /\ log' = << >>
  /\ cleanLog' = << >>
  /\ execResult' = NoResult
  /\ result' = NoResult
  /\ userAttrs' = [u \in Users |-> Unset]
  /\ scen' = NoScen
  /\ UNCHANGED <<selfVars, confVars>>

\* ------------------------------------------------- inputs
\* positional arguments of a call
ArgsSet == {<< >>, <<1, 0>>}

\* the pipeline_index keyword of a call; -1 stands for its absence
IdxChoices == {-1, 0, 1}

ExtraNames == {"none", "returning", "anonymous"}

\* further keyword arguments of a call
Extra(e) ==
  CASE e = "none" -> EmptyMap
    [] e = "returning" -> ("user" :> "U2")
    [] e = "anonymous" ->
         ("user" :> "None") @@ ("is_new" :> "True") @@ (SelfName :> "twin")

AuthKwargs(b, s, r, i, e) ==
  Opt(b # "absent", "backend", b) @@ Opt(s # "absent", "strategy", s)
    @@ Opt(r, "response", "resp") @@ Opt(i >= 0, "pipeline_index", i)
    @@ Extra(e)

DisconnectKwargs(b, i, e) ==
  Opt(b # "absent", "backend", b) @@ Opt(i >= 0, "pipeline_index", i) @@ Extra(e)

CallAuthenticate ==
  /\ pc = "idle"
  /\ \E args \in ArgsSet, b \in {"absent", "this", "twin", "other"},
     s \in {"absent"} \cup Strategies, r \in BOOLEAN, i \in IdxChoices,
     e \in ExtraNames :
    Authenticate(args, AuthKwargs(b, s, r, i, e))

CallDisconnect ==
  /\ pc = "idle"
  /\ \E args \in ArgsSet, b \in {"absent", "twin"}, i \in IdxChoices,
     e \in {"none", "anonymous"} :
    Disconnect(args, DisconnectKwargs(b, i, e))

CallResume ==
  /\ pc = "idle"
  /\ selfStrategy # "None"
  /\ \E p \in Pipelines, e \in {"none", "returning"} :
    \E k \in 0..(Len(p) - 2) : ResumeFull(p, k, Extra(e))

Next ==
  \/ CallAuthenticate
  \/ CallDisconnect
  \/ CallResume
  \/ RunStep
  \/ Complete
  \/ ResumePrefix
  \/ ResumeSuffix
  \/ Reset

Spec == Init /\ [][Next]_vars

\* ------------------------------------------------- settings
\* A stored setting is a value record: a token (Val), a mapping (Dict) or a
\* list (kind "list", its elements in d).  A setting name is a sequence of
\* its parts, <<"FOO", "X">> for FOO_X.  An e-mail address is the sequence
\* of its pieces, each '@' a piece of its own.
ListOf(seq) == [kind |-> "list", d |-> seq, v |-> "None"]

\* Python truth value of a stored setting
ValueTruthy(r) ==
  IF r.kind \in {"dict", "list"} THEN DOMAIN r.d # {} ELSE Truthy(r.v)

\* str.upper() of the provider names
Upper(s) == IF s = "foo" THEN "FOO" ELSE "BAR"

\* setting_name(self.name, name): <PROVIDER_NAME>_<NAME>
SettingName(provider, name) == <<Upper(provider), name>>

\* strategy.setting(key, _default): the stored value, or the sentinel
StrategySetting(store, key) ==
  IF key \in DOMAIN store THEN [found |-> TRUE, v |-> store[key]]
  ELSE [found |-> FALSE, v |-> NoResult]

\* Setting with `if value:` for the test against the sentinel
SettingTruthy(store, name, default) ==
  LET first == StrategySetting(store, SettingName(SelfName, name))
      second == StrategySetting(store, <<name>>)
  IN IF first.found /\ ValueTruthy(first.v) THEN first.v
     ELSE IF second.found /\ ValueTruthy(second.v) THEN second.v
     ELSE default

\* BaseAuth.setting, lines 35-42
Setting(store, name, default) ==
  LET first == StrategySetting(store, SettingName(SelfName, name))
      second == StrategySetting(store, <<name>>)
  IN IF first.found THEN first.v
     ELSE IF second.found THEN second.v
     ELSE default

\* the keys whose stored object setting() hands out (none: the default)
SettingSource(store, name) ==
  IF SettingName(SelfName, name) \in DOMAIN store
  THEN {SettingName(SelfName, name)}
  ELSE IF <<name>> \in DOMAIN store THEN {<<name>>} ELSE {}

\* ------------------------------------------------- auth_allowed
\* details.get('email') is true
HasEmail(details) == "email" \in DOMAIN details /\ details["email"] # << >>

\* x in list
Member(x, list) == \E i \in DOMAIN list.d : list.d[i] = x

\* email.split('@', 1)
SplitOnce(email) ==
  LET at == {i \in 1..Len(email) : email[i] = "@"}
  IN IF at = {} THEN <<email>>
     ELSE LET m == CHOOSE i \in at : \A j \in at : i <= j
          IN <<SubSeq(email, 1, m - 1), SubSeq(email, m + 1, Len(email))>>

\* AuthAllowed that also filters the users without an e-mail address
AuthAllowedStrict(store, details) ==
  LET emails == Setting(store, "WHITELISTED_EMAILS", ListOf(<< >>))
      domains == Setting(store, "WHITELISTED_DOMAINS", ListOf(<< >>))
  IN IF ValueTruthy(emails) \/ ValueTruthy(domains)
     THEN IF ~HasEmail(details) THEN Val("False")
          ELSE IF Len(SplitOnce(details["email"])) < 2 THEN Raise("IndexError")
          ELSE IF Member(details["email"], emails)
                    \/ Member(SplitOnce(details["email"])[2], domains)
               THEN Val("True") ELSE Val("False")
     ELSE Val("True")

\* BaseAuth.auth_allowed, lines 123-133
AuthAllowed(store, details) ==
  LET emails == Setting(store, "WHITELISTED_EMAILS", ListOf(<< >>))
      domains == Setting(store, "WHITELISTED_DOMAINS", ListOf(<< >>))
  IN IF HasEmail(details) /\ (ValueTruthy(emails) \/ ValueTruthy(domains))
     THEN IF Len(SplitOnce(details["email"])) < 2 THEN Raise("IndexError")
          ELSE IF Member(details["email"], emails)
                    \/ Member(SplitOnce(details["email"])[2], domains)
               THEN Val("True") ELSE Val("False")
     ELSE Val("True")

\* ------------------------------------------------- extra arguments
\* Overridden that takes every key of the request data
OverriddenAll(extra, data) == data @@ extra

\* lines 169-170: extra_arguments.update(...) for the keys in self.data
Overridden(extra, data) ==
  [k \in DOMAIN extra |-> IF k \in DOMAIN data THEN data[k] ELSE extra[k]]

\* BaseAuth.auth_extra_arguments, lines 165-171: what it returns
AuthExtraArguments(store, data) ==
  Dict(Overridden(Setting(store, "AUTH_EXTRA_ARGUMENTS", Dict(EmptyMap)).d, data))

\* the update of line 169 is made in place, on the object setting() gave
StoreAfterExtra(store, data) ==
  [k \in DOMAIN store |->
     IF k \in SettingSource(store, "AUTH_EXTRA_ARGUMENTS")
     THEN AuthExtraArguments(store, data) ELSE store[k]]

\* BaseAuth.request_token_extra_arguments, lines 161-163
RequestTokenExtraArguments(store) ==
  Setting(store, "REQUEST_TOKEN_EXTRA_ARGUMENTS", Dict(EmptyMap))

\* ------------------------------------------------- helper calls
\* the values a deployment may store
Stored(c) ==
  CASE c = "empty" -> Val("")
    [] c = "zero" -> Val("0")
    [] c = "none" -> Val("None")
    [] c = "false" -> Val("False")
    [] c = "v1" -> Val("v1")
    [] c = "v2" -> Val("v2")
    [] c = "[]" -> ListOf(<< >>)
    [] c = "[a@x.com]" -> ListOf(<< <<"a", "@", "x.com">> >>)
    [] c = "[root]" -> ListOf(<< <<"root">> >>)
    [] c = "[x.com]" -> ListOf(<< <<"x.com">> >>)
    [] c = "{}" -> Dict(EmptyMap)
    [] c = "{scope}" -> Dict("scope" :> "p0")
    [] c = "{scope,display}" -> Dict(("scope" :> "d0") @@ ("display" :> "d2"))

\* one stored setting, or none
Entry(key, c) == IF c = "absent" THEN EmptyMap ELSE key :> Stored(c)

\* the e-mail addresses a provider may report
Emails ==
  {<< >>, <<"a", "@", "x.com">>, <<"b", "@", "x.com">>, <<"c", "@", "y.org">>,
   <<"a", "@", "b", "@", "x.com">>, <<"root">>}

\* BaseAuth(strategy=s) for every request, over one shared configuration
InitHelpers ==
  /\ selfStrategy \in Strategies
  /\ selfRedirect = "abs_uri"
  /\ selfData = RequestData(selfStrategy)
  /\ \E px \in {"absent", "empty", "none", "v1"},
        bx \in {"absent", "zero", "false", "v2"},
        em \in {"absent", "[]", "[a@x.com]", "[root]"},
        dm \in {"absent", "[]", "[x.com]"},
        pa \in {"absent", "{scope}"},
        ba \in {"absent", "{}", "{scope,display}"},
        rt \in {"absent", "{scope}"} :
       settings = Entry(<<"FOO", "X">>, px) @@ Entry(<<"X">>, bx)
                    @@ Entry(<<"WHITELISTED_EMAILS">>, em)
                    @@ Entry(<<"WHITELISTED_DOMAINS">>, dm)
                    @@ Entry(<<"FOO", "AUTH_EXTRA_ARGUMENTS">>, pa)
                    @@ Entry(<<"AUTH_EXTRA_ARGUMENTS">>, ba)
                    @@ Entry(<<"REQUEST_TOKEN_EXTRA_ARGUMENTS">>, rt)
  /\ settings0 = settings
  /\ InitCall

\* a helper method returns r
HelperReturn(o, args, r) ==
  /\ pc' = "returned"
  /\ op' = o
  /\ callArgs' = args
  /\ result' = r
  /\ UNCHANGED <<selfVars, callKwargs, configured, readFrom, getter, runVars,
                 execResult, userAttrs, scen, settings0>>

CallSetting ==
  /\ pc = "idle"
  /\ \E d \in {"None", "dflt"} :
       HelperReturn("setting", <<"X", d>>, Setting(settings, "X", Val(d)))
  /\ UNCHANGED settings

CallAuthAllowed ==
  /\ pc = "idle"
  /\ \E details \in {EmptyMap} \cup {"email" :> e : e \in Emails} :
       HelperReturn("auth_allowed", <<"resp", details>>,
                    AuthAllowed(settings, details))
  /\ UNCHANGED settings

CallAuthExtraArguments ==
  /\ pc = "idle"
  /\ HelperReturn("auth_extra_arguments", << >>,
                  AuthExtraArguments(settings, selfData))
  /\ settings' = StoreAfterExtra(settings, selfData)

CallRequestTokenExtraArguments ==
  /\ pc = "idle"
  /\ HelperReturn("request_token_extra_arguments", << >>,
                  RequestTokenExtraArguments(settings))
  /\ UNCHANGED settings

\* the next request: a backend is built around its strategy, lines 25-33
NewRequest ==
  /\ pc = "idle"
  /\ \E s \in Strategies :
       /\ selfStrategy' = s
       /\ selfRedirect' = "abs_uri"
       /\ selfData' = RequestData(s)
  /\ UNCHANGED <<callVars, runVars, pc, execResult, result, userAttrs, scen,
                 confVars>>

NextHelpers ==
  \/ CallSetting
  \/ CallAuthAllowed
  \/ CallAuthExtraArguments
  \/ CallRequestTokenExtraArguments
  \/ NewRequest
  \/ Reset

SpecHelpers == InitHelpers /\ [][NextHelpers]_vars


\* ------------------------------------------------- properties
\* run_pipeline has been entered by the current call
Entered == pc = "running" \/ execResult.kind # "none"

Steps == 1..Len(log)

\* the step's return value made the loop stop
Stopped(ret) == ret.kind = "raise" \/ (ret.kind = "value" /\ Truthy(ret.v))

\* the step's return value is taken for an empty result
Empty(ret) == ret.kind # "raise" /\ ~ResultTruthy(ret)

\* every step of the run was invoked and none stopped it
AllCompleted ==
  /\ Len(log) = Len(pipeline)
  /\ \A j \in Steps : ~Stopped(log[j].ret)

\* C1 as stated: a step that returns any non-mapping value (other than
\* returning nothing) is the last step invoked, and run_pipeline returns
\* that value.
C1_AnyNonMappingStops ==
  \A j \in Steps :
    (log[j].ret.kind = "value" /\ log[j].ret.v # "None")
      => (j = Len(log) /\ pc = "returned" /\ execResult = log[j].ret)

\* C1 amended: a step that returns a true (non-empty) non-mapping value is the
\* last step invoked and run_pipeline returns exactly that value; a false
\* non-mapping value (0, '', False) is taken for an empty result and does
\* not end the run.
C1_TruthyNonMappingStops ==
  \A j \in Steps :
    /\ (log[j].ret.kind = "value" /\ Truthy(log[j].ret.v))
         => (j = Len(log) /\ pc = "returned" /\ execResult = log[j].ret)
    /\ (log[j].ret.kind = "value" /\ ~Truthy(log[j].ret.v))
         => idx >= j

\* C1 witness: the first of two configured steps returned a redirect, which
\* run_pipeline returned with the second step never invoked
C1_Witness ==
  /\ pc = "returned"
  /\ Len(pipeline) = 2
  /\ Len(log) = 1
  /\ log[1].ret = Val("redirect")
  /\ execResult = Val("redirect")

\* C2: within a run of run_pipeline, clean_partial_pipeline is called at most
\* once, only after every step of the run has returned without stopping it,
\* and a finished run has called it exactly when all its steps completed; a
\* run ended by a short-circuit or an exception never calls it.
C2_CleanOnlyOnCompletion ==
  /\ Len(cleanLog) <= 1
  /\ pc # "returned" => cleanLog = << >>
  /\ cleanLog # << >> =>
       /\ Entered
       /\ AllCompleted
       /\ cleanLog[1].after = Len(pipeline)
  /\ (pc = "returned" /\ Entered) => (Len(cleanLog) = 1 <=> AllCompleted)
  /\ (pc = "returned" /\ Entered /\ execResult.kind # "dict") => cleanLog = << >>

\* C2 witness: an authenticate run of two steps completed and cleared the
\* partial pipeline once, after the second step
C2_Witness ==
  /\ pc = "returned"
  /\ op = "authenticate"
  /\ Len(log) = 2
  /\ Len(cleanLog) = 1
  /\ cleanLog[1].after = 2

\* C3 as stated: authenticate returns None, having read no pipeline, invoked
\* no step and cleared nothing, when one of its four checks fails, and runs
\* the pipeline when all four pass.
C3_ChecksDecideRun ==
  (op = "authenticate" /\ pc # "idle") =>
    IF ChecksPass(callKwargs)
    THEN Entered
    ELSE /\ pc = "returned"
         /\ result = Val("None")
         /\ ~Entered
         /\ log = << >>
         /\ cleanLog = << >>
         /\ readFrom = "none"


\* an authenticate call whose pipeline ran to completion
AuthCompleted ==
  pc = "returned" /\ op = "authenticate" /\ execResult.kind = "dict"

\* some step of the run returned a mapping with this key
StepSet(key) ==
  \E j \in Steps : log[j].ret.kind = "dict" /\ key \in DOMAIN log[j].ret.d

\* The part of C3 the code keeps: a failed check makes authenticate return
\* None with no pipeline read, no step invoked and nothing cleared.
FailedCheckReturnsNone ==
  (op = "authenticate" /\ pc # "idle" /\ ~ChecksPass(callKwargs)) =>
    /\ pc = "returned"
    /\ result = Val("None")
    /\ ~Entered
    /\ log = << >>
    /\ cleanLog = << >>
    /\ readFrom = "none"

\* With the four checks passed, run_pipeline is entered unless the call
\* passes positional arguments together with a pipeline_index keyword.
PassedCheckRunsUnlessUnbound ==
  (op = "authenticate" /\ pc # "idle" /\ ChecksPass(callKwargs)) =>
    (Entered <=> ~BindError(callArgs, callKwargs))

\* C4 as stated: when the completed context of an authenticate call has a
\* user entry, authenticate returns that user, annotated with the context's
\* social and is_new entries.
C4_UserEntryAnnotated ==
  (AuthCompleted /\ "user" \in DOMAIN execResult.d) =>
    LET d == execResult.d
    IN /\ result = Val(d["user"])
       /\ d["user"] \in Users
       /\ userAttrs[d["user"]] =
            [set |-> TRUE, social_user |-> Get(d, "social"), is_new |-> d["is_new"]]

\* C4 amended: when the completed context has a true user entry (a user
\* object), authenticate returns that same object with social_user and is_new
\* set from the context's social and is_new entries, is_new being False when
\* neither the caller nor a step supplied it; a false user entry (None) is
\* returned as it is and nothing is annotated.
C4_TruthyUserAnnotated ==
  (AuthCompleted /\ "user" \in DOMAIN execResult.d) =>
    LET d == execResult.d
    IN /\ result = Val(d["user"])
       /\ "is_new" \in DOMAIN d
       /\ ("is_new" \notin DOMAIN callKwargs /\ ~StepSet("is_new"))
            => d["is_new"] = "False"
       /\ \A u \in Users :
            userAttrs[u] =
              IF u = d["user"]
              THEN [set |-> TRUE, social_user |-> Get(d, "social"),
                    is_new |-> d["is_new"]]
              ELSE Unset

\* C4 witness: load_user put user U1 in the context and authenticate
\* returned U1 carrying the context's social and is_new entries
C4_Witness ==
  /\ AuthCompleted
  /\ Len(log) = 2
  /\ Get(execResult.d, "user") = "U1"
  /\ result = Val("U1")
  /\ userAttrs["U1"] = [set |-> TRUE, social_user |-> "soc1", is_new |-> "True"]

\* C5 as stated: when run_pipeline's result is not a mapping with a user
\* entry, authenticate returns that result unchanged.
C5_RawResultReturned ==
  (pc = "returned" /\ op = "authenticate"
     /\ execResult.kind \in {"dict", "value"}
     /\ ~(execResult.kind = "dict" /\ "user" \in DOMAIN execResult.d))
    => result = execResult

\* C5 amended: authenticate returns a short-circuit value unchanged, and
\* returns None (not the context) when the pipeline completed with a context
\* that has no user entry.
C5_RawOrNoneReturned ==
  (pc = "returned" /\ op = "authenticate") =>
    /\ execResult.kind = "value" => result = execResult
    /\ (execResult.kind = "dict" /\ "user" \notin DOMAIN execResult.d)
         => result = Val("None")

\* C5 witness: an authenticate pipeline of two steps completed with no user
\* entry in its context and authenticate returned None
C5_Witness ==
  /\ AuthCompleted
  /\ Len(log) = 2
  /\ "user" \notin DOMAIN execResult.d
  /\ result = Val("None")

\* C6: when every step of a run returned an empty result, run_pipeline
\* returns the context it started from (the keyword arguments with the
\* strategy, backend and request defaults of lines 104-107), changed only in
\* pipeline_index, which is the index of the last step; with no step to run
\* it returns that context as it is.
C6_EmptyStepsKeepContext ==
  (pc = "returned" /\ Entered /\ \A j \in Steps : Empty(log[j].ret)) =>
    LET initial == InitialContext(runKwargs, selfStrategy)
    IN /\ Len(log) = Len(pipeline)
       /\ execResult.kind = "dict"
       /\ "pipeline_index" \notin DOMAIN initial
       /\ execResult.d =
            IF pipeline = << >> THEN initial
            ELSE ("pipeline_index" :> (startIndex + Len(pipeline) - 1)) @@ initial

\* C6 witness: a run of two steps from index 0, both returning nothing,
\* returned the caller's context with pipeline_index 1
C6_Witness ==
  /\ pc = "returned"
  /\ callArgs = << >>
  /\ startIndex = 0
  /\ Len(log) = 2
  /\ \A j \in Steps : Empty(log[j].ret)
  /\ execResult.kind = "dict"
  /\ execResult.d["pipeline_index"] = 1
  /\ "response" \in DOMAIN execResult.d

\* the keys steps before step j of the run returned in a mapping
SetBefore(j) ==
  UNION {DOMAIN log[i].ret.d : i \in {x \in 1..(j - 1) : log[x].ret.kind = "dict"}}

\* the latest step before step j that returned key in a mapping
LastSetter(key, j) ==
  CHOOSE i \in 1..(j - 1) :
    /\ log[i].ret.kind = "dict" /\ key \in DOMAIN log[i].ret.d
    /\ \A x \in (i + 1)..(j - 1) :
         ~(log[x].ret.kind = "dict" /\ key \in DOMAIN log[x].ret.d)

\* the context holds keys with the values their latest setters before step j
\* gave them
Carries(ctx, j, keys) ==
  \A key \in keys :
    key \in DOMAIN ctx /\ ctx[key] = log[LastSetter(key, j)].ret.d[key]

\* C7 as stated: every step receives every key earlier steps returned, each
\* with the value of the latest step that set it, and so does the final
\* context.
C7_EveryKeyCarried ==
  /\ \A j \in Steps : Carries(log[j].ctx, j, SetBefore(j))
  /\ (pc = "returned" /\ execResult.kind = "dict")
       => Carries(execResult.d, Len(log) + 1, SetBefore(Len(log) + 1))

\* C7 amended: every step receives every key other than pipeline_index that
\* earlier steps returned, each with the value of the latest step that set
\* it, and so does the final context; pipeline_index is set anew by the
\* executor before each invocation.
C7_StepKeysCarried ==
  /\ \A j \in Steps : Carries(log[j].ctx, j, SetBefore(j) \ {"pipeline_index"})
  /\ (pc = "returned" /\ execResult.kind = "dict")
       => Carries(execResult.d, Len(log) + 1,
                  SetBefore(Len(log) + 1) \ {"pipeline_index"})

\* C7 witness: set_a then set_b ran and the final context has k = B
C7_Witness ==
  /\ pc = "returned"
  /\ Len(log) = 2
  /\ log[1].ret = Dict("k" :> "A")
  /\ log[2].ret = Dict("k" :> "B")
  /\ log[2].ctx["k"] = "A"
  /\ execResult.kind = "dict"
  /\ execResult.d["k"] = "B"

C9_ResumptionEquivalent ==
  (pc = "returned" /\ scen.phase = "suffix") => execResult = scen.full

\* The split run differs from the single run only when a step of the prefix
\* returned a key equal to the backend's name, which line 106 pops when the
\* suffix run starts.
ResumptionEquivalentUnlessNamed ==
  (pc = "returned" /\ scen.phase = "suffix" /\ SelfName \notin DOMAIN runKwargs)
    => execResult = scen.full

\* C10: a step's exception ends the run at that step: no later step is
\* invoked, run_pipeline and its caller raise that same exception, and
\* clean_partial_pipeline is not called.
C10_ExceptionPropagates ==
  \A j \in Steps :
    log[j].ret.kind = "raise" =>
      /\ j = Len(log)
      /\ pc = "returned"
      /\ execResult = log[j].ret
      /\ result = execResult
      /\ cleanLog = << >>

\* C10 witness: the first of two configured steps raised inside an
\* authenticate call, which raised the same exception
C10_Witness ==
  /\ pc = "returned"
  /\ op = "authenticate"
  /\ Len(pipeline) = 2
  /\ Len(log) = 1
  /\ result = Raise("StepError")

\* ------------------------------------------------- C11
\* C11: setting(name, default) returns the value stored under the
\* provider-prefixed key if that key is stored, else the value stored under
\* the bare key if that key is stored, else the default; a stored false value
\* is returned as it is.
C11_SettingLookupOrder ==
  (pc = "returned" /\ op = "setting") =>
    LET prefixed == <<"FOO", callArgs[1]>>
        bare == <<callArgs[1]>>
    IN /\ prefixed \in DOMAIN settings => result = settings[prefixed]
       /\ prefixed \notin DOMAIN settings /\ bare \in DOMAIN settings
            => result = settings[bare]
       /\ prefixed \notin DOMAIN settings /\ bare \notin DOMAIN settings
            => result = Val(callArgs[2])

\* a stored empty string under the prefixed key wins over a true bare value
C11_Witness ==
  /\ pc = "returned"
  /\ op = "setting"
  /\ <<"FOO", "X">> \in DOMAIN settings
  /\ settings[<<"FOO", "X">>] = Val("")
  /\ <<"X">> \in DOMAIN settings
  /\ settings[<<"X">>] = Val("v2")
  /\ callArgs[2] = "dflt"
  /\ result = Val("")

\* ------------------------------------------------- C12
\* the configured allow-lists
AllowedEmails == Setting(settings, "WHITELISTED_EMAILS", ListOf(<< >>))

AllowedDomains == Setting(settings, "WHITELISTED_DOMAINS", ListOf(<< >>))

\* the part of an address after its first '@', if it has one
AfterAt(email) ==
  {SubSeq(email, m + 1, Len(email)) :
     m \in {i \in 1..Len(email) :
              email[i] = "@" /\ \A j \in 1..(i - 1) : email[j] # "@"}}

\* C12: auth_allowed returns true when no allow-list is configured; when an
\* e-mail is present and an allow-list is non-empty it returns true if and
\* only if the e-mail is in the e-mail allow-list or the part after its
\* first '@' is in the domain allow-list.
C12_AllowedIffListed ==
  (pc = "returned" /\ op = "auth_allowed") =>
    LET details == callArgs[2]
    IN /\ ~ValueTruthy(AllowedEmails) /\ ~ValueTruthy(AllowedDomains)
            => result = Val("True")
       /\ HasEmail(details)
            /\ (ValueTruthy(AllowedEmails) \/ ValueTruthy(AllowedDomains))
            => result = Val(IF \/ Member(details["email"], AllowedEmails)
                               \/ \E dom \in AfterAt(details["email"]) :
                                    Member(dom, AllowedDomains)
                            THEN "True" ELSE "False")

\* the same with the addresses that hold no '@' left aside
C12_AllowedIffListedWithAt ==
  (pc = "returned" /\ op = "auth_allowed"
     /\ (HasEmail(callArgs[2]) => AfterAt(callArgs[2]["email"]) # {}))
    => C12_AllowedIffListed

\* ------------------------------------------------- C20
\* C20: auth_allowed returns true for every user whose details carry no
\* e-mail (absent or empty), whatever allow-lists are configured; it denies
\* only a user with an e-mail.
C20_NoEmailAllowed ==
  (pc = "returned" /\ op = "auth_allowed") =>
    /\ ~HasEmail(callArgs[2]) => result = Val("True")
    /\ result = Val("False") => HasEmail(callArgs[2])

\* an empty address is let in although an e-mail allow-list is configured
C20_Witness ==
  /\ pc = "returned"
  /\ op = "auth_allowed"
  /\ callArgs[2] = ("email" :> << >>)
  /\ ValueTruthy(AllowedEmails)
  /\ result = Val("True")

\* ------------------------------------------------- C13
\* the default mapping configured for an operation of the family
ConfiguredExtra(o) ==
  Setting(settings0,
          IF o = "auth_extra_arguments" THEN "AUTH_EXTRA_ARGUMENTS"
          ELSE "REQUEST_TOKEN_EXTRA_ARGUMENTS",
          Dict(EmptyMap)).d

\* what C13 says of one returned mapping
MergedFromRequest(o) ==
  /\ result.kind = "dict"
  /\ DOMAIN result.d = DOMAIN ConfiguredExtra(o)
  /\ \A k \in DOMAIN ConfiguredExtra(o) \cap DOMAIN selfData :
       result.d[k] = selfData[k]

\* C13: for auth_extra_arguments and request_token_extra_arguments alike the
\* returned mapping has exactly the configured keys, and every configured key
\* the request data holds carries the request's value.
C13_FamilyMergesRequest ==
  (pc = "returned"
     /\ op \in {"auth_extra_arguments", "request_token_extra_arguments"})
    => MergedFromRequest(op)

\* C13 as amended: auth_extra_arguments returns exactly the configured keys,
\* each key the request data holds carrying the request's value;
\* request_token_extra_arguments returns the configured mapping as it is
\* stored and does not look at the request data.
C13_OnlyAuthMergesRequest ==
  /\ (pc = "returned" /\ op = "auth_extra_arguments")
       => MergedFromRequest(op)
  /\ (pc = "returned" /\ op = "request_token_extra_arguments")
       => result = Dict(ConfiguredExtra(op))

\* the request overrides 'display', leaves 'scope' and adds no 'state'
C13_Witness ==
  /\ pc = "returned"
  /\ op = "auth_extra_arguments"
  /\ ConfiguredExtra(op) = ("scope" :> "d0") @@ ("display" :> "d2")
  /\ selfData = ("display" :> "r2") @@ ("state" :> "st")
  /\ result = Dict(("scope" :> "d0") @@ ("display" :> "r2"))

\* ------------------------------------------------- C19
\* C19: auth_extra_arguments leaves the configured default mapping as it
\* was: a call whose request data lacks a configured key returns the
\* default configured for that key, whatever the earlier requests held.
C19_DefaultsUnchanged ==
  /\ settings = settings0
  /\ (pc = "returned" /\ op = "auth_extra_arguments") =>
       \A k \in DOMAIN ConfiguredExtra(op) \ DOMAIN selfData :
         result.d[k] = ConfiguredExtra(op)[k]

C16_StepsInOrder ==
  /\ Len(log) <= Len(pipeline)
  /\ pc = "running" => idx = Len(log)
  /\ \A j \in Steps :
       /\ log[j].name = pipeline[j]
       /\ log[j].offset = j - 1
       /\ j < Len(log) => (log[j].ret.kind = "dict" \/ Empty(log[j].ret))
  /\ (Entered /\ op \in {"authenticate", "disconnect"}) =>
       pipeline = (IF "pipeline_index" \in DOMAIN callKwargs
                   THEN Slice(configured, callKwargs["pipeline_index"])
                   ELSE configured)

\* two different steps ran, the second after the first returned nothing
C16_Witness ==
  /\ pc = "returned"
  /\ Len(log) = 2
  /\ log[1].name = "noop"
  /\ log[2].name = "set_b"
  /\ log[1].ret = Val("None")
  /\ configured = <<"noop", "set_b">>

\* ------------------------------------------------- C17
\* C17: every positional argument of the authenticate or disconnect call
\* reaches every invoked step, in order and unchanged, and the start index
\* of the run does not depend on them.
C17_PositionalArgsForwarded ==
  (op \in {"authenticate", "disconnect"} /\ Entered) =>
    /\ startIndex = (IF "pipeline_index" \in DOMAIN callKwargs
                     THEN callKwargs["pipeline_index"] ELSE 0)
    /\ \A j \in Steps : log[j].args = callArgs

\* ------------------------------------------------- C18
\* C18: an authenticate call reads its pipeline and its request data from,
\* and on completion cleans the partial pipeline of, the strategy the call
\* supplied, which is the one its steps receive as context['strategy'].
C18_CallStrategyUsed ==
  (op = "authenticate" /\ Entered) =>
    LET s == callKwargs["strategy"]
    IN /\ readFrom = s
       /\ selfData = RequestData(s)
       /\ \A j \in Steps : log[j].ctx["strategy"] = s
       /\ \A c \in DOMAIN cleanLog : cleanLog[c].strategy = s

====
